---------------------------- MODULE Spec2Model ----------------------------
(***************************************************************************)
(* A model of ProxyCat (proxyman112/proxycat): the PAC configuration       *)
(* document (src/src/pac.rs), the HTTP control plane and the proxy         *)
(* configuration monitor (src/src/main.rs), and the Windows proxy adapter  *)
(* by its contract (src/src/proxy_config.rs).                              *)
(*                                                                         *)
(* Text.  A URL or a function name is a sequence of tokens; a token is a   *)
(* maximal run of ASCII letters and digits ("http", "wpad"), or one single *)
(* other character (":", "/", "_", a non-ASCII letter).  The body of a     *)
(* fetched PAC file is a sequence of tokens too: the needle                *)
(* "function FindProxyForURL" is one token of 24 one-byte characters, and  *)
(* every other token is one character of 1, 2 or 3 UTF-8 bytes.  Host      *)
(* names are opaque strings.                                               *)
(*                                                                         *)
(* JSON.  A JSON object is a sequence of <<key, value>> pairs, a JSON      *)
(* array a sequence of values.  Rust structs are TLA+ records.             *)
(***************************************************************************)
EXTENDS Integers, Sequences, FiniteSets, TLC

\* ------------------------------------------------------------------ bounds

\* HTTP requests (/toggle, /move, /add-item) handled in one run.
MaxRequests == 2
\* Changes of the OS auto-config URL by somebody other than this program.
MaxOsChanges == 2
\* Largest index (0-based) a /toggle or /move request names.
MaxIndex == 2
\* Calls of the setters of APP_CONFIG.
MaxCalls == 3
\* Tokens of a URL and of a fetched text given to the text functions.
MaxUrlLen == 3
MaxTextLen == 4

\* ----------------------------------------------------------------- generic

None == <<>>
Some(x) == <<x>>

Err == [ok |-> FALSE]
Ok(x) == [ok |-> TRUE, v |-> x]


\* VecDeque::remove(i) and VecDeque::insert(i, x), i 0-based.
RemoveAt(s, i) == [k \in 1..(Len(s) - 1) |-> IF k <= i THEN s[k] ELSE s[k + 1]]
\* insert at the end, whatever the index
InsertAtEnd(s, i, x) == Append(s, x)
InsertAt(s, i, x) ==
    [k \in 1..(Len(s) + 1) |-> IF k <= i THEN s[k] ELSE IF k = i + 1 THEN x ELSE s[k - 1]]

\* ------------------------------------------------------------------- text

\* The characters that are neither letters nor digits.
Punctuation == {":", "/", ".", "_", "-", "(", ")", "{", "}", " ", ";", "'"}
\* Letters outside ASCII, named by code point (2 and 3 UTF-8 bytes):
\* char::is_alphanumeric is true of them.
NonAsciiLetters == {"U+00E9", "U+4E2D"}

\* char::is_alphanumeric, token-wise: a run of ASCII letters and digits, or a
\* non-ASCII letter.
IsAlphanumeric(tok) == tok \notin Punctuation

\* The master PAC URL, "http://127.0.0.1:12112/master.pac".
pac_url == <<"http", ":", "/", "/", "127", ".", "0", ".", "0", ".", "1", ":", "12112", "/", "master", ".", "pac">>

\* "http://wpad/wpad.dat", "http://localhost:3333/files/proxy.pac",
\* "http://localhost:10224/proxy.pac"
WpadUrl == <<"http", ":", "/", "/", "wpad", "/", "wpad", ".", "dat">>
ItTlsUrl == <<"http", ":", "/", "/", "localhost", ":", "3333", "/", "files", "/", "proxy", ".", "pac">>
AvTuneUrl == <<"http", ":", "/", "/", "localhost", ":", "10224", "/", "proxy", ".", "pac">>
get_pac_urls == <<WpadUrl, ItTlsUrl, AvTuneUrl>>

\* PacConfig::generate_function_suffix
generate_function_suffix(url) ==
    [i \in 1..Len(url) |-> IF IsAlphanumeric(url[i]) THEN url[i] ELSE "_"]

\* format!("FindProxyForURL_{}", suffix)
NewFunctionName(url) == <<"FindProxyForURL_">> \o generate_function_suffix(url)

\* The needle of find_proxy_function.
FN == "function FindProxyForURL"

\* Characters and UTF-8 bytes of a token of a PAC file's text.
Chars(tok) == IF tok = FN THEN 24 ELSE 1
Bytes(tok) == IF tok = FN THEN 24 ELSE IF tok = "U+00E9" THEN 2 ELSE IF tok = "U+4E2D" THEN 3 ELSE 1

RECURSIVE ByteLen(_)
ByteLen(s) == IF s = <<>> THEN 0 ELSE Bytes(s[1]) + ByteLen(Tail(s))

\* str::find(FN): the first token that is the needle, 0 if there is none.
FindNeedle(content) ==
    IF \E k \in 1..Len(content) : content[k] = FN
    THEN CHOOSE k \in 1..Len(content) :
             /\ content[k] = FN
             /\ \A j \in 1..(k - 1) : content[j] # FN
    ELSE 0

\* The scan of find_proxy_function from token j of content, the character
\* counter of the enumerate() at i: the value of end_pos minus function_start
\* at the break, 0 if the loop runs to the end.
RECURSIVE ScanBraces(_, _, _, _, _)
ScanBraces(content, j, i, brace_count, in_function) ==
    IF j > Len(content) THEN 0
    ELSE IF content[j] = "{"
         THEN ScanBraces(content, j + 1, i + 1, brace_count + 1, TRUE)
    ELSE IF content[j] = "}"
         THEN IF in_function /\ brace_count - 1 = 0
              THEN i + 1
              ELSE ScanBraces(content, j + 1, i + 1, brace_count - 1, in_function)
    ELSE ScanBraces(content, j + 1, i + Chars(content[j]), brace_count, in_function)

\* PacConfig::find_proxy_function: Some((function_start, end_pos)), both byte
\* offsets into content, or None.
find_proxy_function(content) ==
    LET k == FindNeedle(content) IN
    IF k = 0 THEN None
    ELSE LET function_start == ByteLen(SubSeq(content, 1, k - 1))
             rel == ScanBraces(content, k, 0, 0, FALSE)
             end_pos == IF rel = 0 THEN 0 ELSE function_start + rel
         IN IF end_pos > function_start THEN Some(<<function_start, end_pos>>) ELSE None

\* &content[start..end] for start at the needle: Ok(the tokens of the byte
\* range), or Err where end is not a character boundary (the slice panics).
SliceFrom(content, start, end) ==
    LET k == FindNeedle(content)
        ends == {m \in k..Len(content) : ByteLen(SubSeq(content, 1, m)) = end}
    IN IF ends = {} THEN Err
       ELSE Ok(SubSeq(content, k, CHOOSE m \in ends : TRUE))

\* str::replace(FN, format!("function {}", name))
RECURSIVE ReplaceNeedle(_, _)
ReplaceNeedle(text, name) ==
    IF text = <<>> THEN <<>>
    ELSE (IF text[1] = FN THEN <<"function ">> \o name ELSE <<text[1]>>)
         \o ReplaceNeedle(Tail(text), name)

\* ------------------------------------------------- configuration document

\* impl Default for PacConfig
DefaultBypass == <<"localhost", "127.0.0.1", "::1">>
PacConfigDefault ==
    [proxy_rules |-> <<>>,
     bypass_list |-> [i \in 1..3 |-> [host |-> DefaultBypass[i], enabled |-> TRUE]],
     external_pac_functions |-> <<>>]

\* ------------------------------------------------------------------- JSON

HasKey(obj, k) == \E i \in 1..Len(obj) : obj[i][1] = k
Get(obj, k) == obj[CHOOSE i \in 1..Len(obj) : obj[i][1] = k][2]
HasKeys(obj, ks) == \A k \in ks : HasKey(obj, k)

\* #[derive(Serialize)] of the item types and of PacConfig.
SerProxyRuleItem(it) ==
    << <<"rule", << <<"host", it.rule.host>>,
                    <<"proxy_host", it.rule.proxy_host>>,
                    <<"proxy_port", it.rule.proxy_port>> >> >>,
       <<"enabled", it.enabled>> >>
SerBypassListItem(it) == << <<"host", it.host>>, <<"enabled", it.enabled>> >>
SerExternalPacFunctionItem(it) ==
    << <<"function", << <<"original_url", it.function.original_url>>,
                        <<"function_name", it.function.function_name>>,
                        <<"function_text", it.function.function_text>> >> >>,
       <<"enabled", it.enabled>> >>
SerPacConfig(c) ==
    << <<"proxy_rules", [i \in 1..Len(c.proxy_rules) |-> SerProxyRuleItem(c.proxy_rules[i])]>>,
       <<"bypass_list", [i \in 1..Len(c.bypass_list) |-> SerBypassListItem(c.bypass_list[i])]>>,
       <<"external_pac_functions",
         [i \in 1..Len(c.external_pac_functions) |->
             SerExternalPacFunctionItem(c.external_pac_functions[i])]>> >>

\* #[derive(Deserialize)]: every field of the struct must be there, a key that
\* is no field is ignored, and proxy_port must fit a u16.
DeProxyRuleItem(v) ==
    IF /\ HasKeys(v, {"rule", "enabled"})
       /\ HasKeys(Get(v, "rule"), {"host", "proxy_host", "proxy_port"})
       /\ Get(Get(v, "rule"), "proxy_port") \in 0..65535
    THEN Ok([rule |-> [host |-> Get(Get(v, "rule"), "host"),
                       proxy_host |-> Get(Get(v, "rule"), "proxy_host"),
                       proxy_port |-> Get(Get(v, "rule"), "proxy_port")],
             enabled |-> Get(v, "enabled")])
    ELSE Err
\* A bypass item read as disabled, whatever its flag.
DeBypassDisabled(v) ==
    IF HasKeys(v, {"host", "enabled"})
    THEN Ok([host |-> Get(v, "host"), enabled |-> FALSE])
    ELSE Err
DeBypassListItem(v) ==
    IF HasKeys(v, {"host", "enabled"})
    THEN Ok([host |-> Get(v, "host"), enabled |-> Get(v, "enabled")])
    ELSE Err
DeExternalPacFunctionItem(v) ==
    IF /\ HasKeys(v, {"function", "enabled"})
       /\ HasKeys(Get(v, "function"), {"original_url", "function_name", "function_text"})
    THEN Ok([function |-> [original_url |-> Get(Get(v, "function"), "original_url"),
                           function_name |-> Get(Get(v, "function"), "function_name"),
                           function_text |-> Get(Get(v, "function"), "function_text")],
             enabled |-> Get(v, "enabled")])
    ELSE Err
DePacConfig(v) ==
    IF ~HasKeys(v, {"proxy_rules", "bypass_list", "external_pac_functions"}) THEN Err
    ELSE LET r == Get(v, "proxy_rules")
             b == Get(v, "bypass_list")
             e == Get(v, "external_pac_functions")
         IN IF /\ \A i \in 1..Len(r) : DeProxyRuleItem(r[i]).ok
               /\ \A i \in 1..Len(b) : DeBypassListItem(b[i]).ok
               /\ \A i \in 1..Len(e) : DeExternalPacFunctionItem(e[i]).ok
            THEN Ok([proxy_rules |-> [i \in 1..Len(r) |-> DeProxyRuleItem(r[i]).v],
                     bypass_list |-> [i \in 1..Len(b) |-> DeBypassListItem(b[i]).v],
                     external_pac_functions |->
                         [i \in 1..Len(e) |-> DeExternalPacFunctionItem(e[i]).v]])
            ELSE Err

\* ------------------------------------------------------------------- files

\* The two file names of the program: the one save_current writes, and
\* APP_CONFIG.config_file, the one create_shared_config loads and writes.
SAVE_CURRENT_PATH == "pac_config.json"
CONFIG_FILE == "proxycat_config.json"
Paths == {SAVE_CURRENT_PATH, CONFIG_FILE}

NoFile == [exists |-> FALSE, text |-> <<>>]
FileOf(text) == [exists |-> TRUE, text |-> text]

\* PacConfig::save_to_file; io is whether std::fs::write succeeds.
save_to_file(fs, self, path, io) ==
    IF io THEN [fs EXCEPT ![path] = FileOf(SerPacConfig(self))] ELSE fs

\* PacConfig::save_current
save_current(fs, self, io) == save_to_file(fs, self, SAVE_CURRENT_PATH, io)

\* PacConfig::load_from_file
load_from_file(fs, path) ==
    IF fs[path].exists THEN DePacConfig(fs[path].text) ELSE Err

\* ------------------------------------------------------ external PAC files

\* The texts a server answers with: a function, no function, and a function
\* with a three-byte character before its closing brace.
BodyFunction == <<FN, "(", ")", " ", "{", "}">>
BodyNoFunction == <<"{", "}">>
BodyWide == <<FN, "(", ")", " ", "{", "U+4E2D", "}">>
Bodies == {BodyFunction, BodyNoFunction, BodyWide}

\* What reqwest::get(url).await and response.text().await come to: the request
\* fails (always, for a text that is no absolute URL), the body cannot be read,
\* or a response of any status with its text.
FetchError == [kind |-> "error"]
FetchOutcomes(url) ==
    IF url = <<>> THEN {FetchError}
    ELSE {FetchError, [kind |-> "text_error"]}
         \cup {[kind |-> "response", status |-> st, content |-> b] :
                  st \in {200, 404}, b \in Bodies}

\* PacConfig::load_external_pac on self, with a fetch that ends as `fetch`:
\* the configuration afterwards, whether it called save_current, and whether it
\* panicked (the slice of the function's text).
Loaded(c, saved, panicked) == [config |-> c, saved |-> saved, panicked |-> panicked]
load_external_pac(self, url, fetch) ==
    IF fetch.kind # "response" THEN Loaded(self, FALSE, FALSE)
    ELSE LET found == find_proxy_function(fetch.content) IN
         IF found = None THEN Loaded(self, FALSE, FALSE)
         ELSE LET original_function == SliceFrom(fetch.content, found[1][1], found[1][2])
                  new_function_name == NewFunctionName(url)
              IN IF ~original_function.ok THEN Loaded(self, FALSE, TRUE)
                 ELSE IF \E i \in 1..Len(self.external_pac_functions) :
                            self.external_pac_functions[i].function.function_name
                                = new_function_name
                 THEN Loaded(self, FALSE, FALSE)
                 ELSE Loaded([self EXCEPT !.external_pac_functions = Append(@,
                                 [function |->
                                     [original_url |-> url,
                                      function_name |-> new_function_name,
                                      function_text |->
                                          ReplaceNeedle(original_function.v, new_function_name)],
                                  enabled |-> TRUE])],
                             TRUE, FALSE)

\* --------------------------------------------------------------- startup

\* str::split(sep) of a text given as tokens.
RECURSIVE Split(_, _)
Split(s, sep) ==
    IF \E k \in 1..Len(s) : s[k] = sep
    THEN LET k == CHOOSE k \in 1..Len(s) : s[k] = sep /\ \A j \in 1..(k - 1) : s[j] # sep
         IN <<SubSeq(s, 1, k - 1)>> \o Split(SubSeq(s, k + 1, Len(s)), sep)
    ELSE <<s>>

\* The text of one part of a split: the parts of the model's inputs are one
\* token or empty.
PartStr(part) == IF part = <<>> THEN "" ELSE part[1]

\* str::parse::<u16>() of the port texts of the model's inputs.
ParseU16(str) ==
    CASE str = "8080" -> Ok(8080)
      [] str = "0" -> Ok(0)
      [] str = "65535" -> Ok(65535)
      [] OTHER -> Err

\* parse_proxy_server
parse_proxy_server(proxy) ==
    LET parts == Split(proxy, ":") IN
    IF Len(parts) = 2 /\ ParseU16(PartStr(parts[2])).ok
    THEN Some(<<PartStr(parts[1]), ParseU16(PartStr(parts[2])).v>>)
    ELSE None

RECURSIVE AddDefaults(_, _)
AddDefaults(bypass_list, k) ==
    IF k > Len(DefaultBypass) THEN bypass_list
    ELSE AddDefaults(
             IF \E i \in 1..Len(bypass_list) : bypass_list[i].host = DefaultBypass[k]
             THEN bypass_list
             ELSE Append(bypass_list, [host |-> DefaultBypass[k], enabled |-> TRUE]),
             k + 1)

\* PacConfig::from_windows_config: the configuration it returns.  Its calls
\* of save_current write that configuration last.
from_windows_config(config) ==
    LET parsed == IF config.proxy_server = None THEN None
                  ELSE parse_proxy_server(config.proxy_server[1])
        rules == IF parsed = None THEN <<>>
                 ELSE <<[rule |-> [host |-> "*", proxy_host |-> parsed[1][1],
                                   proxy_port |-> parsed[1][2]],
                         enabled |-> TRUE]>>
        parts == IF config.proxy_bypass = None THEN <<>>
                 ELSE SelectSeq(Split(config.proxy_bypass[1], ";"), LAMBDA q : q # <<>>)
        bypass == IF config.proxy_bypass = None THEN PacConfigDefault.bypass_list
                  ELSE [i \in 1..Len(parts) |-> [host |-> PartStr(parts[i]), enabled |-> TRUE]]
    IN [proxy_rules |-> rules,
        bypass_list |-> AddDefaults(bypass, 1),
        external_pac_functions |-> <<>>]

\* create_shared_config: the configuration and the files afterwards.
create_shared_config(fs, windows_config, io) ==
    LET loaded == load_from_file(fs, CONFIG_FILE) IN
    IF loaded.ok THEN [config |-> loaded.v, fs |-> fs]
    ELSE LET config == from_windows_config(windows_config)
         IN [config |-> config,
             fs |-> save_to_file(save_current(fs, config, io), config, CONFIG_FILE, io)]

\* main, lines 121-130: load_external_pac of every URL of get_pac_urls from
\* the k-th on; a panic of one of them ends the process.
RECURSIVE StartupLoads(_, _, _, _, _)
StartupLoads(config, fs, fetches, io, k) ==
    IF k > Len(get_pac_urls) THEN [config |-> config, fs |-> fs, panicked |-> FALSE]
    ELSE LET l == load_external_pac(config, get_pac_urls[k], fetches[k]) IN
         IF l.panicked THEN [config |-> config, fs |-> fs, panicked |-> TRUE]
         ELSE StartupLoads(l.config,
                           IF l.saved THEN save_current(fs, l.config, io) ELSE fs,
                           fetches, io, k + 1)

\* What ProxyConfig::from_windows reads at startup.
WindowsConfigs ==
    {[proxy_server |-> None, proxy_bypass |-> None],
     [proxy_server |-> Some(<<"proxy.corp", ":", "8080">>),
      proxy_bypass |-> Some(<<"intranet", ";", ";", "localhost">>)]}

\* --------------------------------------------------------------- settings

\* constants.rs: PORT, DEFAULT_HOST "127.0.0.1", DEFAULT_PAC_PATH "/master.pac"
PORT == 12112
DEFAULT_HOST == <<"127", ".", "0", ".", "0", ".", "1">>
DEFAULT_PAC_PATH == <<"/", "master", ".", "pac">>

\* format!("http://{}:{}{}", host, port, pac_path)
FormatUrl(host, port, pac_path) ==
    <<"http", ":", "/", "/">> \o host \o <<":", ToString(port)>> \o pac_path

\* The values the callers of the setters pass.
LanHost == <<"192", ".", "168", ".", "1", ".", "5">>
Hosts == {DEFAULT_HOST, <<"localhost">>, LanHost}
Ports == {PORT, 8080}
PacPaths == {DEFAULT_PAC_PATH, <<"/", "p", ".", "pac">>}

\* The threads that call the setters, and 0 for none of them.
Threads == {1, 2}
NoThread == 0

\* A thread outside every call of AppConfig.
Idle == [op |-> "idle", at |-> 0, arg |-> <<>>, port |-> 0, new_url |-> <<>>,
         pre |-> <<>>, alone |-> FALSE, ret |-> None, last |-> "none"]

\* APP_CONFIG as the statics of constants.rs make it: the three fields, the
\* URL, the thread that holds the mutex of host and of master_pac_path, the
\* threads, and the number of calls made.  The mutex of master_pac_url is
\* held for one assignment or one clone at a time.  listen is what main made
\* of the settings, None before it has.
AppInit ==
    [host |-> DEFAULT_HOST, port |-> PORT, pac_path |-> DEFAULT_PAC_PATH,
     master_pac_url |-> FormatUrl(DEFAULT_HOST, PORT, DEFAULT_PAC_PATH),
     host_lock |-> NoThread, pac_path_lock |-> NoThread,
     th |-> [t \in Threads |-> Idle],
     calls |-> 0,
     listen |-> None]

\* ------------------------------------------------------------------ state

\* Foreign auto-config URLs of the OS: "http://x/y.pac" and "http://x_y.pac".
UrlXY == <<"http", ":", "/", "/", "x", "/", "y", ".", "pac">>
UrlX_Y == <<"http", ":", "/", "/", "x", "_", "y", ".", "pac">>
\* The values of the OS auto-config URL; get_pac_file gives the empty text
\* where the OS has none.
OsUrls == {<<>>, pac_url, UrlXY, UrlX_Y}

VARIABLES
    pc,              \* where main and the monitor task are: "boot", "init",
                     \* "sleep", "compare", "absorb", "restore"; "dead" (the
                     \* monitor task panicked), "exited" (main panicked)
    pac_config,      \* the shared PacConfig
    fs,              \* the files, by name
    os_url,          \* the OS auto-config URL
    last_config,     \* the monitor's last_config: Option<String>
    current_config,  \* the monitor's current_config of this tick
    tick,            \* history: what the latest tick of the monitor did
    req,             \* history: the latest HTTP request and its answer
    nreq,            \* HTTP requests handled
    os_changes,      \* changes of os_url by others
    app              \* APP_CONFIG and the threads that call its setters

vars == <<pc, pac_config, fs, os_url, last_config, current_config, tick, req, nreq, os_changes,
          app>>
\* The state of main, the monitor and the HTTP control plane.
program == <<pc, pac_config, fs, os_url, last_config, current_config, tick, req, nreq,
             os_changes>>

\* The class of a fetch, as load_external_pac takes it.
FetchClass(fetch) ==
    IF fetch.kind # "response" THEN fetch.kind
    ELSE IF find_proxy_function(fetch.content) = None THEN "no_function"
    ELSE IF ~SliceFrom(fetch.content, find_proxy_function(fetch.content)[1][1],
                       find_proxy_function(fetch.content)[1][2]).ok THEN "panic"
    ELSE "function"

NoTick == [url |-> <<>>, fetch |-> "none", status |-> 0, write |-> "none", changed |-> FALSE,
           read |-> "none", skipped |-> FALSE]
\* doc is the document the handler found, save what became of its
\* save_current, item the item of an /add-item request; pac is the body of
\* the answer of GET /master.pac, result what it gives for host.
NoRequest == [kind |-> "none", list |-> "", i |-> 0, j |-> 0, url |-> <<>>,
              fetch |-> "none", fetch_status |-> 0, status |-> 0,
              doc |-> <<>>, save |-> "none", item |-> <<>>,
              pac |-> <<>>, host |-> "", result |-> <<>>]

\* A configuration file somebody edited: no default bypass entries.
EditedConfig ==
    [proxy_rules |-> <<[rule |-> [host |-> "*", proxy_host |-> "proxy.corp", proxy_port |-> 8080],
                        enabled |-> TRUE]>>,
     bypass_list |-> <<[host |-> "intranet", enabled |-> TRUE]>>,
     external_pac_functions |-> <<>>]

\* The files at the start of the process: none (the first run), or a
\* configuration file.
InitialFiles ==
    {[p \in Paths |-> NoFile],
     [p \in Paths |-> IF p = CONFIG_FILE THEN FileOf(SerPacConfig(EditedConfig)) ELSE NoFile]}

Init ==
    /\ pc = "boot"
    /\ pac_config = PacConfigDefault
    /\ fs \in InitialFiles
    /\ os_url \in {<<>>, UrlXY}
    /\ last_config = None
    /\ current_config = <<>>
    /\ tick = NoTick
    /\ req = NoRequest
    /\ nreq = 0
    /\ os_changes = 0
    /\ app = AppInit

\* ----------------------------------------------------- main and the monitor

\* A write of the empty URL.
clear_pac_file(url, w) == IF w THEN <<>> ELSE os_url
\* ProxyConfig::set_pac_file(url); w is whether InternetSetOptionW succeeds.
set_pac_file(url, w) == IF w THEN url ELSE os_url

\* main, lines 116-130 and 206: the configuration is created, the default
\* PAC URLs are loaded, and the OS is pointed at the master PAC.
Boot(windows_config, fetches, io, w) ==
    /\ pc = "boot"
    /\ LET created == create_shared_config(fs, windows_config, io)
           loaded == StartupLoads(created.config, created.fs, fetches, io, 1)
       IN /\ pac_config' = loaded.config
          /\ fs' = loaded.fs
          /\ IF loaded.panicked
             THEN pc' = "exited" /\ os_url' = os_url
             ELSE pc' = "init" /\ os_url' = set_pac_file(pac_url, w)
    /\ UNCHANGED <<last_config, current_config, tick, req, nreq, os_changes, app>>

\* main, line 215: let mut last_config = ProxyConfig::get_pac_file().ok();
\* r is whether InternetQueryOptionW succeeds.
MonitorStart(r) ==
    /\ pc = "init"
    /\ last_config' = IF r THEN Some(os_url) ELSE None
    /\ pc' = "sleep"
    /\ UNCHANGED <<pac_config, fs, os_url, current_config, tick, req, nreq, os_changes, app>>

\* A read whose failure forgets the last observed value.
TickReadForgets(r) ==
    /\ pc = "sleep"
    /\ IF r THEN pc' = "compare" /\ current_config' = os_url /\ last_config' = last_config
            ELSE pc' = pc /\ current_config' = current_config /\ last_config' = None
    /\ tick' = [tick EXCEPT !.read = IF r THEN "ok" ELSE "err"]
    /\ UNCHANGED <<pac_config, fs, os_url, req, nreq, os_changes, app>>

\* main, line 218: if let Ok(current_config) = ProxyConfig::get_pac_file();
\* a failed read goes to the sleep of line 245.
TickRead(r) ==
    /\ pc = "sleep"
    /\ IF r THEN pc' = "compare" /\ current_config' = os_url
            ELSE UNCHANGED <<pc, current_config>>
    /\ tick' = [tick EXCEPT !.read = IF r THEN "ok" ELSE "err"]
    /\ UNCHANGED <<pac_config, fs, os_url, last_config, req, nreq, os_changes, app>>

\* The test without the comparison with the master PAC URL.
DriftedFromLast(last, current) == last # Some(current)
\* main, lines 220-221 and 242: the test for a changed configuration.
Drifted(last, current) == last # Some(current) /\ current # pac_url
TickCompare ==
    /\ pc = "compare"
    /\ IF Drifted(last_config, current_config)
       THEN /\ pc' = "absorb"
            /\ tick' = [NoTick EXCEPT !.url = current_config]
            /\ UNCHANGED <<last_config, current_config>>
       ELSE /\ pc' = "sleep"
            /\ last_config' = Some(current_config)
            /\ current_config' = <<>>
            /\ tick' = [NoTick EXCEPT !.skipped = TRUE]
    /\ UNCHANGED <<pac_config, fs, os_url, req, nreq, os_changes, app>>

\* main, lines 225-233: under the write lock, load_external_pac and
\* save_current.  A panic of load_external_pac ends the monitor task.
TickAbsorb(fetch, io) ==
    /\ pc = "absorb"
    /\ LET l == load_external_pac(pac_config, current_config, fetch) IN
       /\ pac_config' = l.config
       /\ IF l.panicked
          THEN pc' = "dead" /\ fs' = fs
          ELSE pc' = "restore" /\ fs' = save_current(fs, l.config, io)
    /\ tick' = [tick EXCEPT !.fetch = FetchClass(fetch),
                            !.status = IF fetch.kind = "response" THEN fetch.status ELSE 0]
    /\ UNCHANGED <<os_url, last_config, current_config, req, nreq, os_changes, app>>

\* main, line 227, and pac.rs lines 208-209: reqwest::get(url).await and
\* response.text().await have no timeout; where the server accepts the
\* connection and never answers, the monitor stays in the await, holding the
\* write lock.
TickFetchPending ==
    /\ pc = "absorb"
    /\ current_config # <<>>
    /\ pc' = "fetching"
    /\ tick' = [tick EXCEPT !.fetch = "pending"]
    /\ UNCHANGED <<pac_config, fs, os_url, last_config, current_config, req, nreq,
                   os_changes, app>>

\* A restore that also drops the external functions of the document.
TickRestoreForgets(w) ==
    /\ pc = "restore"
    /\ os_url' = set_pac_file(pac_url, w)
    /\ tick' = [tick EXCEPT !.write = IF w THEN "ok" ELSE "err"]
    /\ last_config' = Some(current_config)
    /\ current_config' = <<>>
    /\ pc' = "sleep"
    /\ pac_config' = [pac_config EXCEPT !.external_pac_functions = <<>>]
    /\ UNCHANGED <<fs, req, nreq, os_changes, app>>

\* main, lines 236-242: set_pac_file(&pac_url), then last_config.
TickRestore(w) ==
    /\ pc = "restore"
    /\ os_url' = set_pac_file(pac_url, w)
    /\ tick' = [tick EXCEPT !.write = IF w THEN "ok" ELSE "err"]
    /\ last_config' = Some(current_config)
    /\ current_config' = <<>>
    /\ pc' = "sleep"
    /\ UNCHANGED <<pac_config, fs, req, nreq, os_changes, app>>

\* Somebody else (the user, group policy) sets the OS auto-config URL.
OsChange(url) ==
    /\ pc \notin {"boot", "exited"}
    /\ os_changes < MaxOsChanges
    /\ url # os_url
    /\ os_url' = url
    /\ os_changes' = os_changes + 1
    /\ tick' = [tick EXCEPT !.changed = @ \/ pc = "sleep"]
    /\ UNCHANGED <<pc, pac_config, fs, last_config, current_config, req, nreq, app>>

\* ------------------------------------------------------ HTTP control plane

\* The list names of the /toggle and /move paths, and the field each names.
ListIds == {"proxyRules", "bypassList", "externalPacFunctions"}
ListOf(list_id) ==
    CASE list_id = "proxyRules" -> "proxy_rules"
      [] list_id = "bypassList" -> "bypass_list"
      [] list_id = "externalPacFunctions" -> "external_pac_functions"

\* The server answers from the spawn of line 173 until the process ends; a
\* handler waits for the lock while the monitor holds it in a fetch.
Serving == pc \notin {"boot", "exited", "fetching"} /\ nreq < MaxRequests

\* Every variant answered 500, and every variant answered 400.
AllServerErrors(variant) == 500
AllBadRequest(variant) == 400
\* impl IntoResponse for ProxyCatError: the status of each variant.
ErrorStatus(variant) == IF variant = "Internal" THEN 400 ELSE 500

\* The answer of a handler that ends with config.save_current()?: 200, or the
\* status of the ProxyCatError::Pac of save_to_file.
Saved(io) == IF io THEN 200 ELSE ErrorStatus("Pac")
\* What became of the handler's save_current.
Persist(io) == IF io THEN "ok" ELSE "err"

\* item.enabled = false
Disable(enabled) == FALSE
\* item.enabled = !item.enabled
Enable(enabled) == TRUE
Flip(enabled) == ~enabled

\* toggle_handler
Toggle(list_id, index, io) ==
    /\ Serving
    /\ nreq' = nreq + 1
    /\ IF list_id \in ListIds /\ index < Len(pac_config[ListOf(list_id)])
       THEN /\ pac_config' = [pac_config EXCEPT ![ListOf(list_id)][index + 1].enabled = Flip(@)]
            /\ fs' = save_current(fs, pac_config', io)
            /\ req' = [NoRequest EXCEPT !.kind = "toggle", !.list = list_id, !.i = index,
                                        !.status = Saved(io), !.doc = pac_config,
                                        !.save = Persist(io)]
       ELSE /\ UNCHANGED <<pac_config, fs>>
            /\ req' = [NoRequest EXCEPT !.kind = "toggle", !.list = list_id, !.i = index,
                                        !.status = ErrorStatus("Internal"),
                                        !.doc = pac_config]
    /\ UNCHANGED <<pc, os_url, last_config, current_config, tick, os_changes, app>>

\* move_handler.  VecDeque::insert panics where the index is greater than the
\* length, which is one less after the remove; the handler's task unwinds and
\* the write lock is released with the item removed.  Status 0: no answer.
Move(list_id, from_index, to_index, io) ==
    /\ Serving
    /\ nreq' = nreq + 1
    /\ IF list_id \in ListIds
          /\ from_index < Len(pac_config[ListOf(list_id)])
          /\ to_index <= Len(pac_config[ListOf(list_id)])
       THEN LET list == pac_config[ListOf(list_id)]
                item == list[from_index + 1]
                removed == RemoveAt(list, from_index)
            IN IF to_index > Len(removed)
               THEN /\ pac_config' = [pac_config EXCEPT ![ListOf(list_id)] = removed]
                    /\ fs' = fs
                    /\ req' = [NoRequest EXCEPT !.kind = "move", !.list = list_id,
                                                !.i = from_index, !.j = to_index, !.status = 0,
                                                !.doc = pac_config]
               ELSE /\ pac_config' = [pac_config EXCEPT ![ListOf(list_id)] =
                                          InsertAt(removed, to_index, item)]
                    /\ fs' = save_current(fs, pac_config', io)
                    /\ req' = [NoRequest EXCEPT !.kind = "move", !.list = list_id,
                                                !.i = from_index, !.j = to_index,
                                                !.status = Saved(io), !.doc = pac_config,
                                                !.save = Persist(io)]
       ELSE /\ UNCHANGED <<pac_config, fs>>
            /\ req' = [NoRequest EXCEPT !.kind = "move", !.list = list_id,
                                        !.i = from_index, !.j = to_index,
                                        !.status = ErrorStatus("Internal"), !.doc = pac_config]
    /\ UNCHANGED <<pc, os_url, last_config, current_config, tick, os_changes, app>>

\* The admin page's name of an external function (html_template.rs):
\* 'FindProxyForURL_' + url.replace(/[^a-zA-Z0-9]/g, '_')
UiFunctionName(url) ==
    <<"FindProxyForURL_">> \o
    [i \in 1..Len(url) |-> IF url[i] \in Punctuation \cup NonAsciiLetters THEN "_" ELSE url[i]]

\* The items of the /add-item requests: what the admin page sends for a proxy
\* rule, a bypass host and a PAC URL, a rule whose port is no u16, and an
\* object with no field.
UiRuleItem ==
    SerProxyRuleItem([rule |-> [host |-> "example.com", proxy_host |-> "p.example",
                                proxy_port |-> 8080],
                      enabled |-> TRUE])
BadPortItem ==
    << <<"rule", << <<"host", "example.com">>, <<"proxy_host", "p.example">>,
                    <<"proxy_port", 70000>> >> >>,
       <<"enabled", TRUE>> >>
\* A rule with port 0, which is a u16.
ZeroPortItem ==
    SerProxyRuleItem([rule |-> [host |-> "example.com", proxy_host |-> "p.example",
                                proxy_port |-> 0],
                      enabled |-> TRUE])
UiBypassItem == SerBypassListItem([host |-> "intranet", enabled |-> TRUE])
UiPacItem(url) ==
    SerExternalPacFunctionItem([function |-> [original_url |-> url,
                                              function_name |-> UiFunctionName(url),
                                              function_text |-> <<>>],
                                enabled |-> TRUE])
\* A PAC URL item of a client that names the function itself.
PlainNameItem(url) ==
    SerExternalPacFunctionItem([function |-> [original_url |-> url,
                                              function_name |-> <<"f">>,
                                              function_text |-> <<>>],
                                enabled |-> TRUE])
AddItems == {UiRuleItem, BadPortItem, UiBypassItem, UiPacItem(UrlXY), <<>>}
ListTypes == {"proxy_rules", "bypass_list", "external_pac_functions", "externalPacFunctions"}

\* The fetches an /add-item request can lead to.
AddFetches(list_type, item) ==
    IF list_type = "external_pac_functions" /\ DeExternalPacFunctionItem(item).ok
    THEN FetchOutcomes(DeExternalPacFunctionItem(item).v.function.original_url)
    ELSE {FetchError}

AddRequest(list_type, item, url, fetch, status, save) ==
    [NoRequest EXCEPT !.kind = "add", !.list = list_type, !.url = url,
                      !.fetch = IF url = <<>> THEN "none" ELSE FetchClass(fetch),
                      !.fetch_status = IF url # <<>> /\ fetch.kind = "response"
                                       THEN fetch.status ELSE 0,
                      !.status = status, !.doc = pac_config, !.save = save,
                      !.item = item]

\* add_item_handler.  A panic of load_external_pac unwinds the handler's task
\* before the push.
AddItem(list_type, item, fetch, io) ==
    /\ Serving
    /\ nreq' = nreq + 1
    /\ CASE list_type = "proxy_rules" ->
              LET parsed == DeProxyRuleItem(item) IN
              IF parsed.ok
              THEN /\ pac_config' = [pac_config EXCEPT !.proxy_rules = Append(@, parsed.v)]
                   /\ fs' = save_current(fs, pac_config', io)
                   /\ req' = AddRequest(list_type, item, <<>>, fetch, Saved(io), Persist(io))
              ELSE /\ UNCHANGED <<pac_config, fs>>
                   /\ req' = AddRequest(list_type, item, <<>>, fetch, ErrorStatus("Internal"), "none")
         [] list_type = "bypass_list" ->
              LET parsed == DeBypassListItem(item) IN
              IF parsed.ok
              THEN /\ pac_config' = [pac_config EXCEPT !.bypass_list = Append(@, parsed.v)]
                   /\ fs' = save_current(fs, pac_config', io)
                   /\ req' = AddRequest(list_type, item, <<>>, fetch, Saved(io), Persist(io))
              ELSE /\ UNCHANGED <<pac_config, fs>>
                   /\ req' = AddRequest(list_type, item, <<>>, fetch, ErrorStatus("Internal"), "none")
         [] list_type = "external_pac_functions" ->
              LET parsed == DeExternalPacFunctionItem(item) IN
              IF parsed.ok
              THEN LET url == parsed.v.function.original_url
                       l == load_external_pac(pac_config, url, fetch)
                   IN IF l.panicked
                      THEN /\ UNCHANGED <<pac_config, fs>>
                           /\ req' = AddRequest(list_type, item, url, fetch, 0, "none")
                      ELSE /\ pac_config' = [l.config EXCEPT !.external_pac_functions =
                                                 Append(@, parsed.v)]
                           /\ fs' = save_current(fs, pac_config', io)
                           /\ req' = AddRequest(list_type, item, url, fetch, Saved(io), Persist(io))
              ELSE /\ UNCHANGED <<pac_config, fs>>
                   /\ req' = AddRequest(list_type, item, <<>>, fetch, ErrorStatus("Internal"), "none")
         [] OTHER ->
              /\ UNCHANGED <<pac_config, fs>>
              /\ req' = AddRequest(list_type, item, <<>>, fetch, ErrorStatus("Internal"), "none")
    /\ UNCHANGED <<pc, os_url, last_config, current_config, tick, os_changes, app>>

\* ------------------------------------------------------------ the PAC file

\* [String]::join(sep), the strings given as tokens.
RECURSIVE Join(_, _)
Join(parts, sep) ==
    IF parts = <<>> THEN <<>>
    ELSE IF Len(parts) = 1 THEN parts[1]
    ELSE parts[1] \o <<sep>> \o Join(Tail(parts), sep)

\* iter().filter(|item| item.enabled)
Enabled(list) == SelectSeq(list, LAMBDA item : item.enabled)

\* format!("host === '{}'", item.host)
BypassTest(item) == <<"host === '", item.host, "'">>
\* the bypass_list of generate_pac_content
BypassCondition(config) ==
    IF config.bypass_list = <<>> THEN <<"false">>
    ELSE LET enabled == Enabled(config.bypass_list)
         IN Join([i \in 1..Len(enabled) |-> BypassTest(enabled[i])], " || ")

\* The statement of a proxy rule.
ProxyReturn(rule) == <<"return 'PROXY ", rule.proxy_host, ":", ToString(rule.proxy_port), "';">>
ProxyStatement(item) ==
    IF item.rule.host = "*" THEN ProxyReturn(item.rule)
    ELSE <<"if (host == '", item.rule.host, "') ">> \o ProxyReturn(item.rule)

\* The lines of the call of an external function.
ExternalCall(item) ==
    <<"// Try external PAC function from ">> \o item.function.original_url
    \o <<"\n", "const result">> \o item.function.function_name
    \o <<" = ">> \o item.function.function_name \o <<"(url, host);">>

\* generate_pac_content: what it puts in the four places of its template, the
\* statements of external_calls and proxy_rules one by one.
generate_pac_content(config) ==
    LET rules == Enabled(config.proxy_rules)
        functions == Enabled(config.external_pac_functions)
    IN [external_functions |->
            Join([i \in 1..Len(functions) |-> functions[i].function.function_text], "\n\n"),
        bypass_list |-> BypassCondition(config),
        external_calls |-> [i \in 1..Len(functions) |-> ExternalCall(functions[i])],
        proxy_rules |-> [i \in 1..Len(rules) |-> ProxyStatement(rules[i])]]

\* What a browser gets from the script for a host.  The script does not
\* compile where the condition of its if is empty or a const is declared
\* twice; a call of a function the script does not define throws; the
\* functions of the fetched bodies have empty bodies and return nothing.
ConstOf(call) ==
    LET k == CHOOSE k \in 1..Len(call) : call[k] = "const result"
        e == CHOOSE e \in 1..Len(call) : call[e] = " = "
    IN SubSeq(call, k + 1, e - 1)
Defines(text, name) ==
    \E k \in 1..Len(text) :
       /\ text[k] = "function "
       /\ k + Len(name) <= Len(text)
       /\ SubSeq(text, k + 1, k + Len(name)) = name
RECURSIVE RunRules(_, _)
RunRules(statements, host) ==
    IF statements = <<>> THEN <<"DIRECT">>
    ELSE LET st == statements[1] IN
         IF st[1] = "return 'PROXY " THEN <<"PROXY ", st[2], st[3], st[4]>>
         ELSE IF st[2] = host THEN <<"PROXY ", st[5], st[6], st[7]>>
         ELSE RunRules(Tail(statements), host)
FindProxyForURL(pac, host) ==
    IF pac.bypass_list = <<>> THEN <<"SyntaxError">>
    ELSE IF \E i, j \in 1..Len(pac.external_calls) :
               i # j /\ ConstOf(pac.external_calls[i]) = ConstOf(pac.external_calls[j])
    THEN <<"SyntaxError">>
    ELSE IF \E k \in 1..Len(pac.bypass_list) :
               pac.bypass_list[k] = "host === '" /\ pac.bypass_list[k + 1] = host
    THEN <<"DIRECT">>
    ELSE IF \E i \in 1..Len(pac.external_calls) :
               ~Defines(pac.external_functions, ConstOf(pac.external_calls[i]))
    THEN <<"ReferenceError">>
    ELSE RunRules(pac.proxy_rules, host)

\* The hosts the browser asks about.
EvalHosts == {"example.com", "intranet", "localhost"}

\* pac_handler: GET /master.pac, and the browser's use of the answer for host.
pac_handler(host) ==
    /\ pc \notin {"boot", "exited", "fetching"}
    /\ req' = [NoRequest EXCEPT !.kind = "pac", !.status = 200, !.doc = pac_config,
                                !.pac = generate_pac_content(pac_config),
                                !.host = host,
                                !.result = FindProxyForURL(generate_pac_content(pac_config), host)]
    /\ UNCHANGED <<pc, pac_config, fs, os_url, last_config, current_config, tick, nreq,
                   os_changes, app>>

\* -------------------------------------------------------- the text functions

\* The texts of up to n tokens of an alphabet.
Texts(alphabet, n) == UNION {[1..m -> alphabet] : m \in 0..n}

\* The URLs whose symbol is derived, and the fetched texts a function is
\* looked for in.
SymbolUrls == Texts({"a", "9", ":", "_", "U+00E9"}, MaxUrlLen) \cup {WpadUrl}
FetchedTexts == Texts({FN, "{", "}", "a", "U+00E9", "U+4E2D"}, MaxTextLen)

\* load_external_pac, lines 215-216: the symbol of a URL.
Symbol(url) ==
    /\ req' = [NoRequest EXCEPT !.kind = "symbol", !.url = url, !.result = NewFunctionName(url)]
    /\ UNCHANGED <<pc, pac_config, fs, os_url, last_config, current_config, tick, nreq,
                   os_changes, app>>

\* load_external_pac, lines 211-212: the function of a fetched text.  The
\* result is None (no function), Err (the slice panics) or Ok(the text).
Extract(content) ==
    /\ req' = [NoRequest EXCEPT
                  !.kind = "extract", !.item = content,
                  !.result = LET found == find_proxy_function(content) IN
                             IF found = None THEN None
                             ELSE SliceFrom(content, found[1][1], found[1][2])]
    /\ UNCHANGED <<pc, pac_config, fs, os_url, last_config, current_config, tick, nreq,
                   os_changes, app>>

\* ------------------------------------------------------- the settings store

\* The fields of APP_CONFIG a setter's caller can compare.
Fields(a) == [host |-> a.host, port |-> a.port, pac_path |-> a.pac_path]

\* the URL without the path
UrlWithoutPath(new_host, port, pac_path) == FormatUrl(new_host, port, <<>>)
\* The new_url of each setter.
update_port_url(host, new_port, pac_path) == FormatUrl(host, new_port, pac_path)
update_host_url(new_host, port, pac_path) == FormatUrl(new_host, port, pac_path)
update_pac_path_url(host, port, new_path) == FormatUrl(host, port, new_path)

\* Thread t enters a setter.  alone records that no other thread is inside a
\* setter from this call's entry to its return.
Call(t, op, arg) ==
    /\ app.th[t].op = "idle"
    /\ app.listen = None
    /\ app.calls < MaxCalls
    /\ app' = [app EXCEPT
                  !.calls = @ + 1,
                  !.th = [u \in Threads |->
                            IF u = t
                            THEN [Idle EXCEPT !.op = op, !.at = 1, !.arg = arg,
                                              !.pre = Fields(app),
                                              !.alone = \A v \in Threads \ {t} :
                                                            app.th[v].op = "idle"]
                            ELSE [app.th[u] EXCEPT !.alone = FALSE]]]
    /\ UNCHANGED program

\* A setter returns Ok(new_url) and its guards are dropped.
Return(a, t) ==
    [a EXCEPT !.th[t].op = "idle", !.th[t].at = 0,
              !.th[t].ret = Some(a.th[t].new_url), !.th[t].last = a.th[t].op,
              !.host_lock = IF @ = t THEN NoThread ELSE @,
              !.pac_path_lock = IF @ = t THEN NoThread ELSE @]

\* AppConfig::update_port, a statement at a time.
update_port(t) ==
    LET me == app.th[t] IN
    /\ me.op = "update_port"
    /\ \/ /\ me.at = 1
          /\ app' = [app EXCEPT !.port = me.arg, !.th[t].at = 2]
       \/ /\ me.at = 2 /\ app.host_lock = NoThread
          /\ app' = [app EXCEPT !.host_lock = t, !.th[t].at = 3]
       \/ /\ me.at = 3 /\ app.pac_path_lock = NoThread
          /\ app' = [app EXCEPT !.pac_path_lock = t, !.th[t].at = 4,
                                !.th[t].new_url =
                                    update_port_url(app.host, me.arg, app.pac_path)]
       \/ /\ me.at = 4
          /\ app' = Return([app EXCEPT !.master_pac_url = me.new_url], t)
    /\ UNCHANGED program

\* AppConfig::update_host, a statement at a time.
update_host(t) ==
    LET me == app.th[t] IN
    /\ me.op = "update_host"
    /\ \/ /\ me.at = 1
          /\ app' = [app EXCEPT !.th[t].port = app.port, !.th[t].at = 2]
       \/ /\ me.at = 2 /\ app.pac_path_lock = NoThread
          /\ app' = [app EXCEPT !.pac_path_lock = t, !.th[t].at = 3,
                                !.th[t].new_url =
                                    update_host_url(me.arg, me.port, app.pac_path)]
       \/ /\ me.at = 3 /\ app.host_lock = NoThread
          /\ app' = [app EXCEPT !.host = me.arg, !.th[t].at = 4]
       \/ /\ me.at = 4
          /\ app' = Return([app EXCEPT !.master_pac_url = me.new_url], t)
    /\ UNCHANGED program

\* AppConfig::update_pac_path, a statement at a time.
update_pac_path(t) ==
    LET me == app.th[t] IN
    /\ me.op = "update_pac_path"
    /\ \/ /\ me.at = 1 /\ app.host_lock = NoThread
          /\ app' = [app EXCEPT !.host_lock = t, !.th[t].at = 2]
       \/ /\ me.at = 2
          /\ app' = [app EXCEPT !.th[t].port = app.port, !.th[t].at = 3,
                                !.th[t].new_url =
                                    update_pac_path_url(app.host, app.port, me.arg)]
       \/ /\ me.at = 3 /\ app.pac_path_lock = NoThread
          /\ app' = [app EXCEPT !.pac_path = me.arg, !.th[t].at = 4]
       \/ /\ me.at = 4
          /\ app' = Return([app EXCEPT !.master_pac_url = me.new_url], t)
    /\ UNCHANGED program

\* ---------------------------------------------------------- specifications

\* What the three fetches of the startup loads come to: no server answers,
\* "http://wpad/wpad.dat" answers with a function, or with the text whose
\* slice panics.
StartupFetches ==
    {<<FetchError, FetchError, FetchError>>,
     <<[kind |-> "response", status |-> 200, content |-> BodyFunction], FetchError, FetchError>>,
     <<[kind |-> "response", status |-> 200, content |-> BodyWide], FetchError, FetchError>>}

Start ==
    \E windows_config \in WindowsConfigs, fetches \in StartupFetches,
       io \in BOOLEAN, w \in BOOLEAN :
       Boot(windows_config, fetches, io, w)

Monitor ==
    \/ \E r \in BOOLEAN : MonitorStart(r)
    \/ \E r \in BOOLEAN : TickRead(r)
    \/ TickCompare
    \/ \E fetch \in FetchOutcomes(current_config), io \in BOOLEAN : TickAbsorb(fetch, io)
    \/ \E w \in BOOLEAN : TickRestore(w)

Others == \E url \in OsUrls : OsChange(url)

\* The lists and indices the /toggle and /move requests name: every list with
\* every index up to MaxIndex, and a name that is none of the three.
Targets == (ListIds \X (0..MaxIndex)) \cup {<<"proxy_rules", 0>>}

Requests ==
    \/ \E t \in Targets, io \in BOOLEAN : Toggle(t[1], t[2], io)
    \/ \E t \in Targets, to_index \in 0..MaxIndex, io \in BOOLEAN :
          Move(t[1], t[2], to_index, io)
    \/ \E list_type \in ListTypes, item \in AddItems, io \in BOOLEAN :
          \E fetch \in AddFetches(list_type, item) : AddItem(list_type, item, fetch, io)

\* The monitor and the OS setting: startup, the ticks of the monitor task, and
\* the changes of the OS setting by others.
NextMonitor == Start \/ Monitor \/ Others
SpecMonitor == Init /\ [][NextMonitor]_vars

\* The HTTP control plane: startup and the requests, the OS having no
\* auto-config URL at the start and taking the one set at startup.
InitHttp == Init /\ os_url = <<>>
StartHttp ==
    \E windows_config \in WindowsConfigs, fetches \in StartupFetches, io \in BOOLEAN :
       Boot(windows_config, fetches, io, TRUE)
NextHttp == StartHttp \/ Requests
SpecHttp == InitHttp /\ [][NextHttp]_vars

\* The monitor where every OS read, OS write and fetch succeeds, the other
\* programs change the OS setting once the monitor loop runs, and the monitor
\* task is scheduled again and again (its loop sleeps 5 seconds and waits for
\* nothing but the write lock).
FetchSucceeds(url) ==
    IF url = <<>> THEN {FetchError}
    ELSE {[kind |-> "response", status |-> 200, content |-> BodyFunction]}
StartLive ==
    \E windows_config \in WindowsConfigs, io \in BOOLEAN :
       Boot(windows_config, <<FetchError, FetchError, FetchError>>, io, TRUE)
MonitorLive ==
    \/ MonitorStart(TRUE)
    \/ TickRead(TRUE)
    \/ TickCompare
    \/ \E fetch \in FetchSucceeds(current_config), io \in BOOLEAN : TickAbsorb(fetch, io)
    \/ TickRestore(TRUE)
OthersLive == pc # "init" /\ Others
NextLive == StartLive \/ MonitorLive \/ OthersLive
SpecLive == Init /\ [][NextLive]_vars /\ WF_vars(MonitorLive)

\* The same monitor where a server may also never answer a fetch, and the
\* readers of the document.
MonitorFetch == MonitorLive \/ TickFetchPending
Readers == \E host \in {"example.com"} : pac_handler(host)
NextFetch == StartLive \/ MonitorFetch \/ OthersLive \/ Readers
SpecFetch == Init /\ [][NextFetch]_vars /\ WF_vars(MonitorFetch)

\* The startup, the requests that change the three lists, and GET /master.pac.
PacRequests ==
    \/ \E list_id \in {"proxyRules", "bypassList"}, index \in 0..MaxIndex :
          Toggle(list_id, index, TRUE)
    \/ \E from_index \in 0..MaxIndex, to_index \in 0..MaxIndex :
          Move("proxyRules", from_index, to_index, TRUE)
    \/ \E item \in {UiRuleItem, ZeroPortItem} : AddItem("proxy_rules", item, FetchError, TRUE)
    \/ \E item \in {UiPacItem(UrlXY), PlainNameItem(UrlXY)},
          fetch \in FetchSucceeds(UrlXY) \cup {FetchError} :
          AddItem("external_pac_functions", item, fetch, TRUE)
    \/ \E host \in EvalHosts : pac_handler(host)
NextPac == StartHttp \/ PacRequests
SpecPac == InitHttp /\ [][NextPac]_vars

\* The process before main has run, with no file and no OS setting.
InitSettings == Init /\ os_url = <<>> /\ fs = [p \in Paths |-> NoFile]

\* The text functions of load_external_pac on every URL and text.
NextText ==
    \/ \E url \in SymbolUrls : Symbol(url)
    \/ \E content \in FetchedTexts : Extract(content)
SpecText == InitSettings /\ [][NextText]_vars

\* main, lines 105, 171-187 and 206, once the setters of lines 96-104 have
\* returned: the URL for the OS is get_pac_url(), the PAC is routed at
\* get_pac_path(), and the listener is bound to 127.0.0.1 and get_port();
\* bound is whether TcpListener::bind succeeds.
Serve(bound) ==
    /\ app.listen = None
    /\ \A t \in Threads : app.th[t].op = "idle"
    /\ app' = [app EXCEPT !.listen = Some([os |-> app.master_pac_url,
                                           host |-> <<"127", ".", "0", ".", "0", ".", "1">>,
                                           port |-> app.port,
                                           route |-> app.pac_path,
                                           bound |-> bound])]
    /\ UNCHANGED program

\* The threads that call the setters of APP_CONFIG.
Calls ==
    \E t \in Threads :
       \/ \E new_port \in Ports : Call(t, "update_port", new_port)
       \/ \E new_host \in Hosts : Call(t, "update_host", new_host)
       \/ \E new_path \in PacPaths : Call(t, "update_pac_path", new_path)
Setters == \E t \in Threads : update_port(t) \/ update_host(t) \/ update_pac_path(t)
Listen == \E bound \in BOOLEAN : Serve(bound)
NextSettings == Calls \/ Setters \/ Listen
SpecSettings == InitSettings /\ [][NextSettings]_vars

\* ------------------------------------------------------------------ claims

ExternalUrls(config) ==
    {config.external_pac_functions[i].function.original_url :
        i \in 1..Len(config.external_pac_functions)}
ExternalNames(config) ==
    {config.external_pac_functions[i].function.function_name :
        i \in 1..Len(config.external_pac_functions)}

\* A URL some other program configured.
Foreign(url) == url \notin {pac_url, <<>>}

\* A step of the monitor that leaves the absorb (lines 225-233), a step that
\* is the restore (lines 236-242), and a step that is the comparison.
AbsorbStep == pc = "absorb" /\ pc' # "absorb"
RestoreStep == pc = "restore" /\ pc' = "sleep"
CompareStep == pc = "compare" /\ pc' # "compare"
\* A step that is an HTTP request.
RequestStep == nreq' = nreq + 1

\* C1: a tick that reads a foreign URL F it has not seen, fetches a
\* FindProxyForURL function from it with success and writes to the OS with
\* success leaves an external function of source URL F in the document (one
\* more entry than before if F had none) and the master PAC URL in the OS.
C1_DriftAbsorbed ==
    [][/\ (AbsorbStep /\ tick'.fetch \in {"function", "panic"} /\ tick'.status = 200) =>
              /\ pc' = "restore"
              /\ current_config \in ExternalUrls(pac_config')
              /\ Len(pac_config'.external_pac_functions) =
                    Len(pac_config.external_pac_functions)
                    + (IF current_config \in ExternalUrls(pac_config) THEN 0 ELSE 1)
       /\ (RestoreStep /\ tick.fetch = "function" /\ tick.status = 200 /\ tick'.write = "ok") =>
              os_url' = pac_url
      ]_vars

\* C2: a tick whose absorb failed (the fetch failed, the body could not be
\* read, or it holds no FindProxyForURL function) writes nothing to the OS.
C2_NoRestoreAfterFailedAbsorb ==
    (Foreign(tick.url) /\ tick.fetch \in {"error", "text_error", "no_function"}) =>
        tick.write = "none"

\* C3: the tick after one whose restore write failed, reading the same
\* foreign URL, goes through absorb and restore again.
C3_FailedRestoreRetried ==
    [][(CompareStep /\ tick.write = "err" /\ Foreign(tick.url) /\ current_config = tick.url) =>
           pc' = "absorb"]_vars

\* C4: once the OS auto-config URL is a foreign URL and nobody but the monitor
\* changes it any more, it is the master PAC URL at some later time.
C4_EventuallyReasserted ==
    (Foreign(os_url) /\ os_changes = MaxOsChanges) ~> (os_url = pac_url)

\* C5: a tick that follows a restore and reads a foreign URL somebody set
\* since that restore goes through absorb and restore again.
C5_ChangeAfterRestoreAbsorbed ==
    [][(CompareStep /\ tick.write = "ok" /\ tick.changed /\ Foreign(current_config)) =>
           pc' = "absorb"]_vars

\* C6: no two external functions of the document have the same function_name.
C6_UniqueFunctionNames ==
    \A i, j \in 1..Len(pac_config.external_pac_functions) :
        i # j => pac_config.external_pac_functions[i].function.function_name
                 # pac_config.external_pac_functions[j].function.function_name

\* C7: after a request answered 200 and after an absorb that added a function,
\* the file create_shared_config loads holds the document in memory.
LoadsAs(files, config) ==
    LET loaded == load_from_file(files, CONFIG_FILE) IN loaded.ok /\ loaded.v = config
C7_ConfigFilePersisted ==
    [][/\ (RequestStep /\ req'.status = 200) => LoadsAs(fs', pac_config')
       /\ (AbsorbStep /\ pac_config' # pac_config) => LoadsAs(fs', pac_config')
      ]_vars

\* C8: an add of an external function whose fetch fails, is answered with a
\* status that is not 2xx, cannot be read or holds no function, or whose
\* symbol is in the document already, leaves external_pac_functions as it was.
FailedFetch(class, status) ==
    \/ class \in {"error", "text_error", "no_function"}
    \/ class \in {"function", "panic"} /\ status \notin 200..299
C8_FailedAddAddsNothing ==
    [][/\ (/\ RequestStep /\ req'.kind = "add" /\ req'.url # <<>>
           /\ \/ FailedFetch(req'.fetch, req'.fetch_status)
              \/ NewFunctionName(req'.url) \in ExternalNames(pac_config)) =>
              pac_config'.external_pac_functions = pac_config.external_pac_functions
       /\ (/\ AbsorbStep
           /\ \/ FailedFetch(tick'.fetch, tick'.status)
              \/ NewFunctionName(current_config) \in ExternalNames(pac_config)) =>
              pac_config'.external_pac_functions = pac_config.external_pac_functions
      ]_vars

\* C9: an add of an external URL the document has a function of leaves the
\* document as it was.
C9_SecondAddChangesNothing ==
    [][/\ (RequestStep /\ req'.kind = "add" /\ req'.url \in ExternalUrls(pac_config)) =>
              pac_config' = pac_config
       /\ (AbsorbStep /\ current_config \in ExternalUrls(pac_config)) =>
              pac_config' = pac_config
      ]_vars

\* C10: a move of the item at from < len to the index len is answered 200 and
\* puts the item at the end of the list, the others keeping their order.
C10_MoveToEnd ==
    [][(/\ RequestStep /\ req'.kind = "move" /\ req'.list \in ListIds
        /\ req'.i < Len(pac_config[ListOf(req'.list)])
        /\ req'.j = Len(pac_config[ListOf(req'.list)])) =>
           LET list == pac_config[ListOf(req'.list)] IN
           /\ req'.status = 200
           /\ pac_config'[ListOf(req'.list)] = Append(RemoveAt(list, req'.i), list[req'.i + 1])
      ]_vars

\* A request answered 200.
Succeeded(r, kind) == r.kind = kind /\ r.status = 200

\* C11: two successful toggles in a row on one index of one list leave the
\* document as it was before the first.
C11_ToggleInvolution ==
    [][(/\ RequestStep
        /\ Succeeded(req, "toggle") /\ Succeeded(req', "toggle")
        /\ req'.list = req.list /\ req'.i = req.i) =>
           pac_config' = req.doc]_vars
\* The second of two toggles of the first bypass entry, which starts enabled
\* and which nothing but a toggle disables, has been answered.
C11_Toggled ==
    /\ nreq = 2 /\ Succeeded(req, "toggle") /\ req.list = "bypassList" /\ req.i = 0
    /\ ~req.doc.bypass_list[1].enabled
    /\ pac_config.bypass_list[1].enabled

\* C12: a move of a valid index to itself leaves the document as it was and
\* is answered 200 (500 where the save fails).
C12_MoveToSelf ==
    [][(/\ RequestStep /\ req'.kind = "move" /\ req'.list \in ListIds
        /\ req'.i = req'.j /\ req'.i < Len(pac_config[ListOf(req'.list)])) =>
           /\ pac_config' = pac_config
           /\ \/ req'.save = "ok" /\ req'.status = 200
              \/ req'.save = "err" /\ req'.status = 500]_vars
C12_MovedToSelf ==
    /\ Succeeded(req, "move") /\ req.list \in ListIds /\ req.i = req.j
    /\ Len(req.doc[ListOf(req.list)]) >= 2
    /\ req.i < Len(req.doc[ListOf(req.list)]) - 1

\* The list a /toggle or /move request names is none of the three, or an
\* index of the request is out of range.
BadTarget(r, config) ==
    /\ r.kind \in {"toggle", "move"}
    /\ \/ r.list \notin ListIds
       \/ r.list \in ListIds /\ r.i >= Len(config[ListOf(r.list)])
       \/ r.list \in ListIds /\ r.kind = "move" /\ r.j > Len(config[ListOf(r.list)])

\* C13: a /toggle or /move request with an index out of range or a list name
\* that is none of the three is answered 4xx and leaves the document and the
\* files as they were.
C13_BadTargetRejected ==
    [][(RequestStep /\ BadTarget(req', pac_config)) =>
           /\ req'.status \in 400..499
           /\ pac_config' = pac_config
           /\ fs' = fs]_vars
C13_Rejected ==
    /\ req.kind = "move" /\ req.list \in ListIds
    /\ req.i < Len(req.doc[ListOf(req.list)]) /\ req.j > Len(req.doc[ListOf(req.list)])
    /\ req.status = 400

\* The item of an /add-item request is not of its list's type, or the list
\* type is none of the three.
BadItem(r) ==
    /\ r.kind = "add"
    /\ CASE r.list = "proxy_rules" -> ~DeProxyRuleItem(r.item).ok
         [] r.list = "bypass_list" -> ~DeBypassListItem(r.item).ok
         [] r.list = "external_pac_functions" -> ~DeExternalPacFunctionItem(r.item).ok
         [] OTHER -> TRUE

\* C14: a request whose save fails is answered 5xx; a request with a bad
\* index, a bad list name or a malformed item is answered 4xx.
C14_ErrorStatuses ==
    [][RequestStep =>
           /\ req'.save = "err" => req'.status \in 500..599
           /\ (BadTarget(req', pac_config) \/ BadItem(req')) => req'.status \in 400..499]_vars
C14_SaveFailed ==
    /\ req.kind = "add" /\ req.save = "err" /\ req.status = 500
    /\ pac_config # req.doc

\* The hosts of the bypass entries of a document.
BypassHosts(config) == {config.bypass_list[i].host : i \in 1..Len(config.bypass_list)}

\* C15: once a handler has saved the document, at the latest, the bypass list
\* has entries for localhost, 127.0.0.1 and ::1.
C15_DefaultBypassPresent ==
    req.save = "ok" =>
        \A k \in 1..Len(DefaultBypass) : DefaultBypass[k] \in BypassHosts(pac_config)

\* No thread is inside a setter, and some setter has returned.
AllReturned ==
    /\ \A t \in Threads : app.th[t].op = "idle"
    /\ \E t \in Threads : app.th[t].ret # None

\* C16: once every call of update_host, update_port and update_pac_path has
\* returned, however they interleaved, get_pac_url() is "http://" + get_host()
\* + ":" + get_port() + get_pac_path().
C16_UrlConsistent ==
    AllReturned => app.master_pac_url = FormatUrl(app.host, app.port, app.pac_path)

\* Thread t returns from a setter no other thread ran into.
SequentialReturn(t) ==
    app.th[t].op # "idle" /\ app'.th[t].op = "idle" /\ app.th[t].alone

\* C17: a setter that runs alone leaves master_pac_url as "http://" + host +
\* ":" + port + pac_path of the fields as they are, returns that URL, and
\* leaves the two fields it does not set as they were.
C17_SetterRecomputesUrl ==
    [][\A t \in Threads : SequentialReturn(t) =>
           LET op == app.th[t].op
               arg == app.th[t].arg
               pre == app.th[t].pre
           IN /\ app'.master_pac_url = FormatUrl(app'.host, app'.port, app'.pac_path)
              /\ app'.th[t].ret = Some(app'.master_pac_url)
              /\ Fields(app') =
                    CASE op = "update_port" -> [pre EXCEPT !.port = arg]
                      [] op = "update_host" -> [pre EXCEPT !.host = arg]
                      [] op = "update_pac_path" -> [pre EXCEPT !.pac_path = arg]
      ]_vars
\* update_host has returned to a thread that ran it alone, after another
\* setter changed the port.
C17_HostSet ==
    \E t \in Threads :
       /\ app.th[t].op = "idle" /\ app.th[t].last = "update_host" /\ app.th[t].alone
       /\ app.host = <<"localhost">> /\ app.port # PORT
       /\ app.th[t].ret = Some(FormatUrl(<<"localhost">>, app.port, app.pac_path))

\* GET /master.pac has been answered.
PacServed == req.kind = "pac"

\* C18: the bypass condition of the generated PAC is false where no bypass
\* entry is enabled, and else host === '<host>' of the enabled entries in the
\* document's order, joined by ' || '.
C18_BypassCondition ==
    PacServed =>
        LET enabled == Enabled(req.doc.bypass_list) IN
        req.pac.bypass_list =
            IF enabled = <<>> THEN <<"false">>
            ELSE Join([i \in 1..Len(enabled) |-> <<"host === '", enabled[i].host, "'">>],
                      " || ")

\* The enabled external functions of the document are defined, each under a
\* name of its own: called, they return nothing.
NoExternalResult(config) ==
    LET functions == Enabled(config.external_pac_functions) IN
    /\ \A i \in 1..Len(functions) : functions[i].function.function_text # <<>>
    /\ \A i, j \in 1..Len(functions) :
          i # j => functions[i].function.function_name # functions[j].function.function_name

\* C19: where every proxy rule of the document is disabled, the generated PAC
\* gives DIRECT for a host that is not in the bypass list and that no external
\* function decides.
C19_DirectWithoutRules ==
    (/\ PacServed
     /\ Enabled(req.doc.proxy_rules) = <<>>
     /\ NoExternalResult(req.doc)
     /\ req.host \notin BypassHosts(req.doc)) =>
        req.result = <<"DIRECT">>

\* C20: for a host no enabled bypass entry names and no external function
\* decides, the generated PAC gives the proxy of the first enabled rule whose
\* host is "*" or the host, and DIRECT where there is none.
C20_FirstEnabledRule ==
    (/\ PacServed
     /\ req.host \notin BypassHosts([bypass_list |-> Enabled(req.doc.bypass_list)])
     /\ NoExternalResult(req.doc)) =>
        LET rules == SelectSeq(Enabled(req.doc.proxy_rules),
                               LAMBDA item : item.rule.host \in {"*", req.host})
        IN req.result =
              IF rules = <<>> THEN <<"DIRECT">>
              ELSE <<"PROXY ", rules[1].rule.proxy_host, ":",
                     ToString(rules[1].rule.proxy_port)>>

\* sanitize as the specification has it: ASCII letters and digits kept, every
\* other character '_'.
AsciiSanitize(url) ==
    [i \in 1..Len(url) |-> IF url[i] \in Punctuation \cup NonAsciiLetters THEN "_" ELSE url[i]]

\* C22: the symbol of a URL u is "FindProxyForURL_" + sanitize(u), sanitize(u)
\* being as long as u, keeping ASCII letters and digits and having '_' for
\* every other character.
C22_SymbolSanitized ==
    req.kind = "symbol" =>
        /\ req.result = <<"FindProxyForURL_">> \o AsciiSanitize(req.url)
        /\ Len(req.result) = 1 + Len(req.url)
        /\ \A i \in 2..Len(req.result) : req.result[i] \notin NonAsciiLetters

\* The first '}' from token j on that returns the brace depth to zero after it
\* has risen above zero, 0 if there is none.
RECURSIVE ClosingBrace(_, _, _, _)
ClosingBrace(content, j, depth, risen) ==
    IF j > Len(content) THEN 0
    ELSE IF content[j] = "{" THEN ClosingBrace(content, j + 1, depth + 1, risen \/ depth + 1 > 0)
    ELSE IF content[j] = "}"
         THEN IF risen /\ depth - 1 = 0 THEN j
              ELSE ClosingBrace(content, j + 1, depth - 1, risen)
    ELSE ClosingBrace(content, j + 1, depth, risen)

\* C24: the function extracted from a text is the region from the first
\* "function FindProxyForURL" to and including the first '}' that returns the
\* brace depth to zero after it has risen above zero, multi-byte characters
\* inside the function included; a text with no such brace gives nothing.
C24_ExtractedRegion ==
    req.kind = "extract" =>
        LET k == FindNeedle(req.item)
            m == IF k = 0 THEN 0 ELSE ClosingBrace(req.item, k, 0, FALSE)
        IN req.result = IF m = 0 THEN None ELSE Ok(SubSeq(req.item, k, m))

\* C21: the generated PAC answers "DIRECT" for a host equal to an enabled
\* bypass entry, whatever the external functions and the rules are.
C21_BypassFirst ==
    (/\ PacServed
     /\ \E k \in 1..Len(req.doc.bypass_list) :
           req.doc.bypass_list[k].enabled /\ req.doc.bypass_list[k].host = req.host)
    => req.result = <<"DIRECT">>

\* C23: every entry of external_pac_functions is named "FindProxyForURL_" +
\* sanitize(its URL), whichever operation created it.
C23_SymbolOfUrl ==
    \A k \in 1..Len(pac_config.external_pac_functions) :
       LET function == pac_config.external_pac_functions[k].function IN
       function.function_name = <<"FindProxyForURL_">> \o AsciiSanitize(function.original_url)

\* C29: the port of every proxy rule is in 1..65535.
C29_PortRange ==
    \A k \in 1..Len(pac_config.proxy_rules) :
       pac_config.proxy_rules[k].rule.proxy_port \in 1..65535

\* The list after a whole move of the item at from_index to to_index: the item
\* is at to_index (at the end for to_index = len), the others keep their order;
\* a move the handler rejects leaves the list.
Moved(list, from_index, to_index) ==
    IF from_index < Len(list) /\ to_index <= Len(list)
    THEN LET removed == RemoveAt(list, from_index) IN
         IF to_index >= Len(removed) THEN Append(removed, list[from_index + 1])
         ELSE InsertAt(removed, to_index, list[from_index + 1])
    ELSE list

\* C25: a GET of the PAC that follows a /move sees the document either as it
\* was before the move or as it is after the whole move, never with the item
\* removed and not yet inserted again.
C25_ReadersSeeWholeWrites ==
    [][(req.kind = "move" /\ req.list \in ListIds /\ req'.kind = "pac") =>
           \/ req'.doc = req.doc
           \/ req'.doc = [req.doc EXCEPT ![ListOf(req.list)] = Moved(@, req.i, req.j)]
      ]_vars

\* C26: every fetch of the monitor ends, the server never answering included:
\* the monitor that starts to absorb a URL comes to the end of
\* load_external_pac, where it releases the write lock the readers wait for.
C26_FetchTerminates ==
    (pc = "absorb") ~> (pc \in {"restore", "dead"})

\* The monitor task is in its loop: asleep until the next tick, or in a tick.
InLoop(at) == at \in {"sleep", "compare", "absorb", "restore"}

\* C27: whatever goes wrong in a tick (the OS read, the fetch, the search for
\* the function, the save, the OS write), the monitor stays in its loop and
\* goes on to the next tick, and the process goes on.
C27_TickNeverStops ==
    [][InLoop(pc) => InLoop(pc')]_vars

Resolves(host) == IF host = <<"localhost">> THEN DEFAULT_HOST ELSE host

\* C30: the URL main writes to the OS names the address, the port and the path
\* on which the HTTP server listens and answers with the PAC, whatever host,
\* port and path are configured.
C30_ServerAtMasterUrl ==
    (app.listen # None /\ app.listen[1].bound) =>
        LET listen == app.listen[1] IN
        \E host \in Hosts :
           /\ Resolves(host) = listen.host
           /\ listen.os = FormatUrl(host, listen.port, listen.route)

\* C31: a tick that has read the OS URL fetches, changes the document and
\* writes to the OS only where the URL differs from the master PAC URL and from
\* the last observed one; else it does none of the three; either way the tick
\* ends with the URL it read as the last observed one.
C31_TickActsOnDriftOnly ==
    [][/\ CompareStep =>
             IF current_config # pac_url /\ last_config # Some(current_config)
             THEN pc' = "absorb" /\ UNCHANGED <<pac_config, fs, os_url, last_config>>
             ELSE /\ pc' = "sleep"
                  /\ UNCHANGED <<pac_config, fs, os_url>>
                  /\ last_config' = Some(current_config)
       /\ (AbsorbStep \/ RestoreStep) =>
             current_config # pac_url /\ last_config # Some(current_config)
       /\ RestoreStep => last_config' = Some(current_config)
      ]_vars
\* After a change of the OS setting by others, a tick has read the master PAC
\* URL and has ended without a fetch and without a write.
C31_SkippedAtMaster ==
    /\ pc = "sleep" /\ tick.skipped
    /\ last_config = Some(pac_url) /\ os_changes > 0

\* C32: a tick whose read of the OS URL fails leaves the document, the OS
\* setting and the last observed URL as they are and waits for the next tick.
C32_FailedReadSkips ==
    [][(pc = "sleep" /\ tick.read # "err" /\ tick'.read = "err") =>
           /\ pc' = "sleep"
           /\ UNCHANGED <<pac_config, fs, os_url, last_config>>]_vars
\* The read of a tick has failed after a tick that absorbed a URL.
C32_ReadFailed ==
    pc = "sleep" /\ tick.read = "err" /\ tick.write # "none" /\ last_config = Some(tick.url)

C33_AddsFetchedFunction ==
    [][(/\ RequestStep /\ Succeeded(req', "add")
        /\ req'.list = "external_pac_functions"
        /\ req'.url \notin ExternalUrls(pac_config)) =>
           LET list == pac_config'.external_pac_functions
               function == list[Len(list)].function
           IN /\ Len(list) = Len(pac_config.external_pac_functions) + 1
              /\ function.function_name = NewFunctionName(req'.url)
              /\ Defines(function.function_text, function.function_name)
      ]_vars

\* C34: a /toggle, /move or /add-item request whose save fails leaves the
\* document in memory as it was before the request.
C34_FailedSaveRollsBack ==
    [][(RequestStep /\ req'.save = "err") => pac_config' = pac_config]_vars

\* C35: an /add-item request with an unknown list type or an item that is not
\* of the list's type is answered 4xx and leaves the lists and the files; a
\* valid proxy rule or bypass entry is appended to its list with the request's
\* enabled flag, everything else staying.
C35_AddItemChecked ==
    [][(RequestStep /\ req'.kind = "add") =>
           /\ BadItem(req') =>
                 /\ req'.status \in 400..499
                 /\ pac_config' = pac_config
                 /\ fs' = fs
           /\ (~BadItem(req') /\ req'.list = "bypass_list") =>
                 pac_config' = [pac_config EXCEPT !.bypass_list =
                                   Append(@, [host |-> Get(req'.item, "host"),
                                              enabled |-> Get(req'.item, "enabled")])]
           /\ (~BadItem(req') /\ req'.list = "proxy_rules") =>
                 pac_config' = [pac_config EXCEPT !.proxy_rules =
                                   Append(@, [rule |-> [host |-> Get(Get(req'.item, "rule"), "host"),
                                                        proxy_host |-> Get(Get(req'.item, "rule"), "proxy_host"),
                                                        proxy_port |-> Get(Get(req'.item, "rule"), "proxy_port")],
                                              enabled |-> Get(req'.item, "enabled")])]
      ]_vars
\* A bypass entry has been appended by one request, and the next request, of
\* an unknown list type, has been rejected.
C35_AppendedThenRejected ==
    /\ nreq = 2 /\ BadItem(req) /\ req.list = "externalPacFunctions" /\ req.status = 400
    /\ pac_config = req.doc
    /\ Len(pac_config.bypass_list) >= 2
    /\ pac_config.bypass_list[Len(pac_config.bypass_list)] = [host |-> "intranet", enabled |-> TRUE]

\* Two lists hold the same items, each as many times.
IsPermutation(a, b) ==
    /\ Len(a) = Len(b)
    /\ \A k \in 1..Len(a) :
          Cardinality({i \in 1..Len(a) : a[i] = a[k]}) = Cardinality({i \in 1..Len(b) : b[i] = a[k]})

\* C36: after a /move request, answered 200, rejected or aborted, the list it
\* names holds the items it held before, and the other lists are as before.
C36_MovePermutes ==
    [][(RequestStep /\ req'.kind = "move") =>
           \A list \in {"proxy_rules", "bypass_list", "external_pac_functions"} :
              IF req'.list \in ListIds /\ list = ListOf(req'.list)
              THEN IsPermutation(pac_config[list], pac_config'[list])
              ELSE pac_config'[list] = pac_config[list]
      ]_vars

\* C37: a /toggle request answered 200 negates the enabled flag of the item
\* at the index and changes nothing else of the three lists.
C37_ToggleFrame ==
    [][(RequestStep /\ Succeeded(req', "toggle")) =>
           pac_config' = [pac_config EXCEPT
                             ![ListOf(req'.list)][req'.i + 1].enabled = ~@]]_vars
\* The second external function of a document of two has been toggled.
C37_ToggledExternal ==
    /\ Succeeded(req, "toggle") /\ req.list = "externalPacFunctions" /\ req.i = 1
    /\ Len(req.doc.external_pac_functions) = 2
    /\ ~pac_config.external_pac_functions[2].enabled

\* C40: the generated PAC has a trampoline for every enabled external
\* function, in the document's order, and every trampoline calls a symbol
\* whose function the PAC defines.
C40_TrampolinesDefined ==
    PacServed =>
        LET functions == Enabled(req.doc.external_pac_functions) IN
        /\ Len(req.pac.external_calls) = Len(functions)
        /\ \A k \in 1..Len(functions) :
              /\ ConstOf(req.pac.external_calls[k]) = functions[k].function.function_name
              /\ Defines(req.pac.external_functions, functions[k].function.function_name)

\* C38: the threads inside update_host, update_port and update_pac_path never
\* wait for each other's mutexes: while a thread is inside a setter, some
\* thread inside a setter can take its next step.
C38_NoDeadlock ==
    (\E t \in Threads : app.th[t].op # "idle") => ENABLED Setters

=============================================================================
